---- MODULE Spec2Model ----
(***************************************************************************)
(* The asynchronous stepping engine of webgnome_api/views/socket_step.py:  *)
(* run_model, run_export_model (with its linked cleanup callback),         *)
(* execute_async_model and get_rewind, for one session.                    *)
(*                                                                         *)
(* The engine runs on gevent: one thread, cooperative greenlets.  A        *)
(* greenlet runs without interruption until it suspends (Event.wait on a   *)
(* cleared Event, gevent.sleep) or ends.  spawn, kill(block=False),        *)
(* Event.set and the notification of linked callbacks put callbacks on the *)
(* hub's queue, which the hub runs in order.  The variable hub is that     *)
(* queue; request handlers are atomic actions, and so is every stretch of  *)
(* execute_async_model between two suspension points.                      *)
(***************************************************************************)
EXTENDS Integers, Sequences, FiniteSets, TLC

VARIABLES
    active_greenlets,   \* ns.active_greenlets[sid]: 0 (no entry) or a greenlet id
    greenlets,          \* the greenlets spawned so far, by id
    hub,                \* the hub's callback queue
    sock_session,       \* the socket session: num_sent and the Gate 'lock'
    is_async,           \* ns.is_async: free-run mode, as the client chose it
    model,              \* the active model: current_time_step, outputters
    has_weathering_uncertainty, \* active_model.has_weathering_uncertainty
    uncertain_models,   \* TRUE when uncertainty workers exist for the session
    events,             \* everything emitted on the socket namespace, in order
    session_lock,       \* TRUE while the session's mutual-exclusion lock is held
    rewind,             \* the statements of get_rewind, when it has just been handled
    requests,           \* number of run requests received so far
    exports,            \* number of them that were export requests
    agg_in,             \* input of the aggregation under test (AggSpec)
    agg_out             \* its result

vars == <<active_greenlets, greenlets, hub, sock_session, is_async, model,
          has_weathering_uncertainty, uncertain_models, events,
          session_lock, rewind, requests, exports, agg_in, agg_out>>

engine_vars == <<active_greenlets, greenlets, hub, sock_session, is_async, model,
                 has_weathering_uncertainty, uncertain_models, events,
                 session_lock, rewind, requests, exports>>

-----------------------------------------------------------------------------
(* Bounds of the model *)

\* run requests (run_model and run_export_model together) the client sends
MaxRequests == 2
\* those of them that are export requests (run_export_model)
MaxExports == 1
\* number of time steps of the model: step() raises StopIteration after them
NumTimeSteps == 2

(* Program constants *)

\* wait_time of the start barrier
StartWaitTime == 16
\* wait_time of the per-step wait
StepWaitTime == 6000

\* the socket id of the session (ns.get_sockid_from_sessid)
Sid == "sid"
\* emit() without room=: the event goes to every connected client
Broadcast == "all"

-----------------------------------------------------------------------------
(* Paths: a path is the sequence of its components *)

path_join(dir, fn) == dir \o fn

basename(p) == IF Len(p) = 0 THEN "" ELSE p[Len(p)]

\* obj_fn + '.zip'
add_zip(p) == [p EXCEPT ![Len(p)] = @ \o ".zip"]

\* tempfile.mkdtemp(): a fresh directory for each request
mkdtemp(r) == <<"tmp", "td" \o ToString(r)>>

\* payload['model_name']
ModelName == "model"

\* payload['outputters']: the file names of no, one or two outputters
Payloads == { << >>, << <<"a.out">> >>, << <<"a.out">>, <<"d", "b.out">> >> }

-----------------------------------------------------------------------------
(* Events *)

Event(name, room, g, num, msg) ==
    [name |-> name, room |-> room, g |-> g, num |-> num, msg |-> msg]

Emit(w, e) == [w EXCEPT !.ev = Append(@, e)]

-----------------------------------------------------------------------------
(* Output records and uncertainty-worker results *)

\* Python's None
None == [None |-> TRUE]

\* A record is a mapping from block names to blocks.  The nominal
\* WeatheringOutput block carries a time stamp and one measured field.
OutEmpty == << >>
OutPlain(n) == [step_num |-> n]
OutWeathering(n) == [step_num |-> n,
                     WeatheringOutput |-> [time_stamp |-> n, a |-> 2]]

\* A worker result is a dict holding the worker's WeatheringOutput block, or
\* a tuple (type, exception, traceback) that encodes the worker's failure.
Fragment(blk) == [tuple |-> FALSE, WeatheringOutput |-> blk]
Failure(msg) == [tuple |-> TRUE,
                 items |-> <<"type", [exception |-> TRUE, msg |-> msg], "traceback">>]

\* isinstance(step_output, tuple) and len(step_output) >= 3 and
\* isinstance(step_output[1], Exception)
is_failure(step_output) ==
    /\ step_output.tuple
    /\ Len(step_output.items) >= 3
    /\ step_output.items[2].exception

RangeOf(v) == { v[i] : i \in 1..Len(v) }
min(v) == CHOOSE x \in RangeOf(v) : \A y \in RangeOf(v) : x <= y
max(v) == CHOOSE x \in RangeOf(v) : \A y \in RangeOf(v) : x >= y

\* aggregate[k]: the values of field k, in worker order
aggregate(steps, k) ==
    LET having == SelectSeq([i \in 1..Len(steps) |-> i],
                            LAMBDA i : k \in DOMAIN steps[i].WeatheringOutput)
    IN  [j \in 1..Len(having) |-> steps[having[j]].WeatheringOutput[k]]

\* the first worker's value instead of the least
low_of_first(steps, keys) == [k \in keys |-> aggregate(steps, k)[1]]

low_of(steps, keys) == [k \in keys |-> min(aggregate(steps, k))]

high_of(steps, keys) == [k \in keys |-> max(aggregate(steps, k))]

\* Lines 266-310 of execute_async_model: the record to emit for a step, from
\* the record model.step() returned and the workers' results (<< >> when
\* get_uncertain_steps returned None).  raised: a worker's exception is
\* re-raised.  The per-worker entries full_output[idx] are the field idx, and
\* the two response times are measured values, written "elapsed".
aggregate_steps(output, steps) ==
    IF Len(steps) > 0 /\ "WeatheringOutput" \in DOMAIN output
    THEN IF \E i \in 1..Len(steps) : is_failure(steps[i])
         THEN LET first == CHOOSE i \in 1..Len(steps) :
                              /\ is_failure(steps[i])
                              /\ \A j \in 1..(i - 1) : ~is_failure(steps[j])
              IN  [raised |-> TRUE, msg |-> steps[first].items[2].msg,
                   output |-> output]
         ELSE LET nominal == output.WeatheringOutput
                  keys == UNION { DOMAIN steps[i].WeatheringOutput :
                                     i \in 1..Len(steps) }
                  full_output ==
                      [time_stamp |-> nominal.time_stamp,
                       nominal |-> nominal,
                       low |-> low_of(steps, keys),
                       high |-> high_of(steps, keys),
                       idx |-> [i \in 0..(Len(steps) - 1) |->
                                   steps[i + 1].WeatheringOutput]]
              IN  [raised |-> FALSE, msg |-> "",
                   output |-> ("WeatheringOutput" :> full_output)
                              @@ ("uncertain_response_time" :> "elapsed")
                              @@ ("total_response_time" :> "elapsed")
                              @@ output]
    ELSE IF "WeatheringOutput" \in DOMAIN output
    THEN LET nominal == output.WeatheringOutput
             full_output ==
                 [time_stamp |-> nominal.time_stamp,
                  nominal |-> nominal,
                  low |-> None,
                  high |-> None]
         IN  [raised |-> FALSE, msg |-> "",
              output |-> ("WeatheringOutput" :> full_output)
                         @@ ("uncertain_response_time" :> "elapsed")
                         @@ ("total_response_time" :> "elapsed")
                         @@ output]
    ELSE [raised |-> FALSE, msg |-> "", output |-> output]

\* What active_model.step() and the workers can produce in one iteration of
\* the engine: the kind of record, the workers' results, or an exception.
WorkerResults == { <<Fragment([a |-> 1]), Fragment([a |-> 3])>>,
                   <<Fragment([a |-> 1]), Failure("worker")>>,
                   <<Failure("worker")>> }
StepInputs == [steps : WorkerResults, raises : BOOLEAN]

\* The records the model's step() returns: without any block, with blocks but
\* no WeatheringOutput, or with the WeatheringOutput block
OutputKinds == {"empty", "plain", "weathering"}

\* The models examined: what step() returns, and has_weathering_uncertainty
ModelKinds == { <<"empty", FALSE>>, <<"plain", TRUE>>,
                <<"weathering", FALSE>>, <<"weathering", TRUE>> }

output_of(kind, n) ==
    IF kind = "empty" THEN OutEmpty
    ELSE IF kind = "plain" THEN OutPlain(n)
    ELSE OutWeathering(n)

-----------------------------------------------------------------------------
(* gevent: greenlets, the hub's queue, kill and link                       *)
(*                                                                         *)
(* The operators below take and return a world w: the record of the state  *)
(* a greenlet or a handler can change (gl: greenlets, ss: sock_session,    *)
(* m: model, um: uncertain_models, ev: events, hub, lock: session_lock,    *)
(* rw: rewind).                                                            *)

World == [gl |-> greenlets, ss |-> sock_session, m |-> model,
          um |-> uncertain_models, ev |-> events, hub |-> hub,
          lock |-> session_lock, rw |-> << >>]

Callback(type, g, why) == [type |-> type, g |-> g, why |-> why]

Queued(q, type, g) == \E i \in 1..Len(q) : q[i].type = type /\ q[i].g = g

Enqueue(w, cb) == [w EXCEPT !.hub = Append(@, cb)]

\* The greenlet g suspends at pc.  The callbacks already on the hub's queue run
\* before any time passes, so before the timer of this wait or sleep fires:
\* behind counts those that have not run yet.
Suspend(w, g, pc) ==
    [w EXCEPT !.gl[g].st = "suspended", !.gl[g].pc = pc,
              !.gl[g].behind = Len(w.hub)]

\* the same with a dead greenlet still counted as true
Truthy_registered(gl, g) == g # 0

\* bool(greenlet): started (or scheduled to start) and not yet dead
Truthy(gl, g) == g # 0 /\ gl[g].st # "dead"

\* the same with the callback linked by link_exception: it is called only
\* for a greenlet that ended with an exception other than GreenletExit
Die_link_exception(w, g, value) ==
    LET w1 == [w EXCEPT !.gl[g].st = "dead", !.gl[g].pc = "-",
                        !.gl[g].behind = 0, !.gl[g].value = value]
    IN  IF w.gl[g].linked /\ value = "exception"
        THEN Enqueue(w1, Callback("links", g, "-")) ELSE w1

\* A greenlet is dead: its result is set and, when callbacks are linked, their
\* notification is scheduled on the hub.  A run without link() has none.
Die(w, g, value) ==
    LET w1 == [w EXCEPT !.gl[g].st = "dead", !.gl[g].pc = "-",
                        !.gl[g].behind = 0, !.gl[g].value = value]
    IN  IF w.gl[g].linked THEN Enqueue(w1, Callback("links", g, "-")) ELSE w1

\* greenlet.kill(block=False).  A greenlet that has not started yet never
\* runs: its start is cancelled and it is dead at once with GreenletExit as
\* its value.  Otherwise the throw of GreenletExit is scheduled on the hub
\* (a throw already scheduled is not scheduled again: the first one ends the
\* greenlet).  Killing a dead greenlet does nothing.
Kill(w, g) ==
    IF w.gl[g].st = "dead" THEN w
    ELSE IF w.gl[g].st = "scheduled"
    THEN Die([w EXCEPT !.hub = SelectSeq(@, LAMBDA cb :
                                  ~(cb.type = "start" /\ cb.g = g))],
             g, "GreenletExit")
    ELSE IF Queued(w.hub, "kill", g) THEN w
    ELSE Enqueue(w, Callback("kill", g, "-"))

\* ns.on_model_kill(sid): cancel the session's active task without blocking
on_model_kill(w) ==
    IF Truthy(w.gl, active_greenlets) THEN Kill(w, active_greenlets) ELSE w

-----------------------------------------------------------------------------
(* execute_async_model *)

\* the finally clause without save_session
Finally_not_saved(w, g) == w

\* the finally clause: the session is compared with the copy taken at entry
\* (logging only) and the copy is saved as the session
Finally(w, g) == [w EXCEPT !.ss.num_sent = w.gl[g].copy]

\* leaving a 'with socket_namespace.session(sockid)' block saves the session
\* the block entered with
ExitSession(w, g) == [w EXCEPT !.ss.num_sent = w.gl[g].entered]

EnterSession(w, g) == [w EXCEPT !.gl[g].entered = w.ss.num_sent]

\* except GreenletExit: emit 'killed', run the finally clause, re-raise
Killed(w, g) ==
    Die(Finally(Emit(w, Event("killed", Sid, g, 0, "Model run terminated early")), g),
        g, "GreenletExit")

\* except Exception: emit 'runtimeError' with the message, finally, re-raise
Failed(w, g, msg) ==
    Die(Finally(Emit(w, Event("runtimeError", Sid, g, 0, msg)), g),
        g, "exception")

\* the same without the 'complete' event
Completed_silently(w, g) == Die(Finally(w, g), g, "None")

\* the loop was left by break: finally, then 'complete' (emitted without room)
Completed(w, g) ==
    Die(Emit(Finally(w, g), Event("complete", Broadcast, g, 0, "Model run completed")),
        g, "None")

\* get_uncertain_steps(request)
get_uncertain_steps(w, inp) == IF w.um THEN inp.steps ELSE << >>

\* the same with the event built before the count is incremented
AfterStep_emit_first(w, g, output) ==
    LET w1 == [w EXCEPT !.gl[g].copy = @ + 1, !.gl[g].steps = @ + 1]
        w2 == IF DOMAIN output # {}
              THEN Emit(w1, Event("step", Sid, g, w.gl[g].copy, "output"))
              ELSE Emit(w1, Event("step", Broadcast, g, w.gl[g].copy, "counter"))
        w3 == IF ~is_async THEN [w2 EXCEPT !.ss.lock = FALSE] ELSE w2
        w4 == EnterSession(w3, g)
    IN  IF w4.ss.lock
        THEN Suspend(ExitSession(w4, g), g, "sleep")
        ELSE Suspend(w4, g, "next_wait")

\* Lines 330-354: count and emit the step, clear the Gate unless in free-run
\* mode, then wait on the Gate (which returns at once when it is set) and
\* sleep.  The value of the wait is dropped and 'unlocked' is the Event object
\* itself, which is true: the timeout branch of lines 348-352 is never taken.
AfterStep(w, g, output) ==
    LET w1 == [w EXCEPT !.gl[g].copy = @ + 1, !.gl[g].steps = @ + 1]
        w2 == IF DOMAIN output # {}
              THEN Emit(w1, Event("step", Sid, g, w1.gl[g].copy, "output"))
              ELSE Emit(w1, Event("step", Broadcast, g, w1.gl[g].copy, "counter"))
        w3 == IF ~is_async THEN [w2 EXCEPT !.ss.lock = FALSE] ELSE w2
        w4 == EnterSession(w3, g)
    IN  IF w4.ss.lock
        THEN Suspend(ExitSession(w4, g), g, "sleep")
        ELSE Suspend(w4, g, "next_wait")

\* Lines 245-328: one iteration of the loop up to the emission.  On the first
\* step the uncertainty workers are dropped and, when the model has
\* weathering uncertainty, set up again.  step() raises StopIteration at the
\* end of the model's time steps, or fails with another exception.  calls
\* counts the calls of step() that returned, failures the steps for which a
\* worker's result encoded a failure.
Iteration(w, g, inp) ==
    LET w1 == IF w.m.current_time_step = -1
              THEN [w EXCEPT !.um = has_weathering_uncertainty]
              ELSE w
    IN  IF inp.raises THEN Failed(w1, g, "step")
        ELSE IF w1.m.current_time_step >= NumTimeSteps - 1
        THEN Completed([w1 EXCEPT !.um = FALSE], g)
        ELSE LET w2 == [w1 EXCEPT !.m.current_time_step = @ + 1,
                                  !.gl[g].calls = @ + 1]
                 output == output_of(w2.m.output, w2.m.current_time_step)
                 steps == get_uncertain_steps(w2, inp)
                 agg == aggregate_steps(output, steps)
                 w3 == IF \E i \in 1..Len(steps) : is_failure(steps[i])
                       THEN [w2 EXCEPT !.gl[g].failures = @ + 1]
                       ELSE w2
             IN  IF agg.raised THEN Failed(w3, g, agg.msg)
                 ELSE AfterStep(w3, g, agg.output)

\* Lines 231-243, when the greenlet starts: copy the session, emit
\* 'prepared', wait on the Gate.  With the Gate set the wait returns True at
\* once and the loop is entered without suspending.
Start(w, g, inp) ==
    LET w1 == [w EXCEPT !.gl[g].st = "running", !.gl[g].copy = w.ss.num_sent]
        w2 == EnterSession(Emit(w1, Event("prepared", Sid, g, 0, "")), g)
    IN  IF w2.ss.lock
        THEN Iteration(ExitSession(w2, g), g, inp)
        ELSE Suspend(w2, g, "start_wait")

\* Lines 237-241: the start wait returned False
StartTimedOut(w, g) ==
    on_model_kill(Emit(w, Event("timeout", Sid, g, StartWaitTime,
                                "Model not started, timed out")))

\* The greenlet g is switched to again: after the start wait (why says
\* whether the Gate was set or the wait timed out), after the per-step wait,
\* or after the sleep.
Resume(w, g, why, inp) ==
    LET w1 == [w EXCEPT !.gl[g].st = "running"]
    IN  IF w.gl[g].pc = "start_wait"
        THEN Iteration(ExitSession(IF why = "timeout" THEN StartTimedOut(w1, g)
                                   ELSE w1, g), g, inp)
        ELSE IF w.gl[g].pc = "next_wait"
        THEN Suspend(ExitSession(w1, g), g, "sleep")
        ELSE Iteration(w1, g, inp)

-----------------------------------------------------------------------------
(* The export cleanup, linked to the greenlet of an export run *)

\* the same with the '.zip' file preferred
obj_fn_of_zip_first(files, o) ==
    IF add_zip(o.filename) \in files THEN add_zip(o.filename) ELSE o.filename

\* obj_fn: the outputter's file, or the same with '.zip' appended when the
\* file does not exist
obj_fn_of(files, o) ==
    IF o.filename \in files THEN o.filename ELSE add_zip(o.filename)

\* the test without its second half
not_successful_exception_only(grn) == grn.value = "exception"

\* grn.exception or isinstance(grn.value, GreenletExit)
not_successful(grn) == grn.value = "exception" \/ grn.value = "GreenletExit"

\* the same with every entry named after the outputter's own file name
zip_entries_plain_names(files, outs) ==
    LET ok(i) == \A j \in 1..i : obj_fn_of(files, outs[j]) \in files
        n == Cardinality({ i \in 1..Len(outs) : ok(i) })
    IN  [i \in 1..n |-> [arcname |-> basename(outs[i].filename),
                         data |-> obj_fn_of(files, outs[i])]]

\* zipfile_.write(obj_fn, basename(obj_fn)) for the outputters in order; a
\* missing file raises and ends the loop
zip_entries(files, outs) ==
    LET ok(i) == \A j \in 1..i : obj_fn_of(files, outs[j]) \in files
        n == Cardinality({ i \in 1..Len(outs) : ok(i) })
    IN  [i \in 1..n |-> [arcname |-> basename(obj_fn_of(files, outs[i])),
                         data |-> obj_fn_of(files, outs[i])]]

ZipFile(entries) == [zip |-> TRUE, entries |-> entries, data |-> << >>]
PlainFile(data) == [zip |-> FALSE, entries |-> << >>, data |-> data]

\* Lines 125-150: report the outcome and assemble the artifact.  written is
\* the set of files the cleanup finds in the run's scratch directory, scratch
\* the files it leaves there, placed the files it puts into the session's
\* directory, by name.
assemble(w, g) ==
    LET grn == w.gl[g]
        outs == grn.temporary_outputters
    IN  IF not_successful(grn)
        THEN Emit(w, Event("export_failed", Sid, g, 0, ""))
        ELSE IF Len(outs) > 1
        THEN LET end_filename == grn.model_filename \o "_output.zip"
                 entries == zip_entries(grn.written, outs)
                 w1 == [w EXCEPT !.gl[g].placed =
                                    (end_filename :> ZipFile(entries)) @@ @]
             IN  IF Len(entries) < Len(outs) THEN w1
                 ELSE Emit(w1, Event("export_finished", Sid, g, 0, end_filename))
        ELSE IF Len(outs) = 0 THEN w
        ELSE LET obj_fn == obj_fn_of(grn.written, outs[1])
                 end_filename == basename(obj_fn)
             IN  IF obj_fn \notin grn.written THEN w
                 ELSE Emit([w EXCEPT !.gl[g].placed =
                                        (end_filename :> PlainFile(obj_fn)) @@ @,
                                     !.gl[g].scratch = @ \ {obj_fn}],
                           Event("export_finished", Sid, g, 0, end_filename))

\* the same with every outputter taken off the model
detach_all(w, g) ==
    [w EXCEPT !.m.outputters = {},
              !.m.current_time_step = -1,
              !.gl[g].cleanups = @ + 1]

\* Lines 115-123: detach the run's outputters and rewind the model
detach(w, g) ==
    LET outs == w.gl[g].temporary_outputters
    IN  [w EXCEPT !.m.outputters = @ \ { outs[i].id : i \in 1..Len(outs) },
                  !.m.current_time_step = -1,
                  !.gl[g].cleanups = @ + 1]

cleanup(w, g) == assemble(detach(w, g), g)

\* The files the cleanup of greenlet g may find in the scratch directory:
\* nothing at all (no step was written), or every outputter's file, under its
\* name, under that name with '.zip' appended, or under both.  After a run
\* that failed or was killed the cleanup does not look at the files, and only
\* the first two cases are told apart.
Written(g) ==
    LET outs == greenlets[g].temporary_outputters
        names == [i \in 1..Len(outs) |->
                     IF not_successful(greenlets[g]) THEN {{outs[i].filename}}
                     ELSE {{outs[i].filename}, {add_zip(outs[i].filename)},
                           {outs[i].filename, add_zip(outs[i].filename)}}]
        picks == { f \in [1..Len(outs) -> UNION { names[i] : i \in 1..Len(outs) }] :
                     \A i \in 1..Len(outs) : f[i] \in names[i] }
    IN  {{}} \cup { UNION { f[i] : i \in 1..Len(outs) } : f \in picks }

-----------------------------------------------------------------------------
(* The state after construction *)

\* an outputter that belongs to the model, not to an export run
OwnOutputter == <<0, 0>>

EngineInit ==
    /\ active_greenlets = 0
    /\ greenlets = << >>
    /\ hub = << >>
    /\ sock_session = [num_sent |-> 0, lock |-> FALSE]
    /\ is_async \in BOOLEAN
    /\ model \in [current_time_step : {-1}, outputters : {{OwnOutputter}},
                  output : OutputKinds]
    /\ has_weathering_uncertainty \in BOOLEAN
    /\ <<model.output, has_weathering_uncertainty>> \in ModelKinds
    /\ uncertain_models = FALSE
    /\ events = << >>
    /\ session_lock = FALSE
    /\ rewind = << >>
    /\ requests = 0
    /\ exports = 0

NoAggregation == [output |-> OutEmpty, steps |-> << >>]
NoResult == [done |-> FALSE, raised |-> FALSE, msg |-> "", output |-> OutEmpty]

Init ==
    /\ EngineInit
    /\ agg_in = NoAggregation
    /\ agg_out = NoResult

\* the world w becomes the state
Becomes(w) ==
    /\ greenlets' = w.gl
    /\ sock_session' = w.ss
    /\ model' = w.m
    /\ uncertain_models' = w.um
    /\ events' = w.ev
    /\ hub' = w.hub
    /\ session_lock' = w.lock
    /\ rewind' = w.rw

-----------------------------------------------------------------------------
(* The run requests *)

Greenlet(linked, outs) ==
    [st |-> "scheduled", pc |-> "-", value |-> "-", linked |-> linked,
     temporary_outputters |-> outs, model_filename |-> ModelName,
     behind |-> 0, copy |-> 0, entered |-> 0, calls |-> 0, steps |-> 0, cleanups |-> 0,
     failures |-> 0,
     written |-> {}, scratch |-> {}, placed |-> << >>]

\* the guard without the test of the registered greenlet
may_spawn_unguarded(w) == TRUE

\* the guard of lines 164 and 203 (the session always has an active model)
may_spawn(w) == ~Truthy(w.gl, active_greenlets)

\* A run is over when its greenlet is dead and its linked callbacks have been
\* called.  The events and the counts of a run are kept until the next
\* greenlet is spawned: from then on only the runs not yet over are recorded.
Over(w, g) == w.gl[g].st = "dead" /\ ~Queued(w.hub, "links", g)

Forgotten ==
    [st |-> "dead", pc |-> "-", value |-> "-", linked |-> FALSE,
     temporary_outputters |-> << >>, model_filename |-> ModelName,
     behind |-> 0, copy |-> 0, entered |-> 0, calls |-> 0, steps |-> 0, cleanups |-> 0,
     failures |-> 0,
     written |-> {}, scratch |-> {}, placed |-> << >>]

Forget(w) ==
    [w EXCEPT !.gl = [g \in 1..Len(w.gl) |->
                        IF Over(w, g) THEN Forgotten ELSE w.gl[g]],
              !.ev = SelectSeq(@, LAMBDA e : ~Over(w, e.g))]

\* gevent.spawn(execute_async_model, ...), and gl.link(...) for an export run
spawn(w, linked, outs) ==
    Enqueue([Forget(w) EXCEPT !.gl = Append(@, Greenlet(linked, outs))],
            Callback("start", Len(w.gl) + 1, "-"))

\* Lines 201-214
run_model ==
    /\ requests < MaxRequests
    /\ requests' = requests + 1
    /\ exports' = exports
    /\ LET w == [World EXCEPT !.ss.num_sent = 0]
       IN  IF may_spawn(w)
           THEN /\ Becomes(spawn(w, FALSE, << >>))
                /\ active_greenlets' = Len(greenlets) + 1
           ELSE /\ Becomes(w)
                /\ active_greenlets' = active_greenlets
    /\ UNCHANGED <<is_async, has_weathering_uncertainty, agg_in, agg_out>>

\* Lines 96-110: the temporary outputters of request r, attached to the model
create_outputters(r, payload) ==
    [i \in 1..Len(payload) |->
        [id |-> <<r, i>>, filename |-> path_join(mkdtemp(r), payload[i])]]

attach(w, outs) ==
    [w EXCEPT !.m.outputters = @ \cup { outs[i].id : i \in 1..Len(outs) }]

\* Lines 73-176
run_export_model ==
    /\ requests < MaxRequests
    /\ exports < MaxExports
    /\ requests' = requests + 1
    /\ exports' = exports + 1
    /\ \E payload \in Payloads :
         LET outs == create_outputters(requests + 1, payload)
             w == [attach(World, outs) EXCEPT !.ss.num_sent = 0]
         IN  IF may_spawn(w)
             THEN /\ Becomes(spawn(w, TRUE, outs))
                  /\ active_greenlets' = Len(greenlets) + 1
             ELSE /\ Becomes(w)
                  /\ active_greenlets' = active_greenlets
    /\ UNCHANGED <<is_async, has_weathering_uncertainty, agg_in, agg_out>>

-----------------------------------------------------------------------------
(* The client's messages on the socket *)

Waiting(g) ==
    /\ greenlets[g].st = "suspended"
    /\ greenlets[g].pc \in {"start_wait", "next_wait"}

\* the greenlets a wake-up can be scheduled for
Wakeable(g) == greenlets[g].st = "suspended" /\ ~Queued(hub, "wake", g)

\* the client sets the Gate: a greenlet waiting on it is scheduled to resume
set_gate(w) ==
    LET ws == { g \in 1..Len(greenlets) : Waiting(g) /\ Wakeable(g) }
        w1 == [w EXCEPT !.ss.lock = TRUE]
    IN  IF ws = {} THEN w1
        ELSE Enqueue(w1, Callback("wake", CHOOSE g \in ws : TRUE, "set"))

gate_set ==
    /\ ~sock_session.lock
    /\ Becomes(set_gate(World))
    /\ UNCHANGED <<active_greenlets, is_async, has_weathering_uncertainty,
                   requests, exports, agg_in, agg_out>>

\* the client clears the Gate
gate_clear ==
    /\ sock_session.lock
    /\ Becomes([World EXCEPT !.ss.lock = FALSE])
    /\ UNCHANGED <<active_greenlets, is_async, has_weathering_uncertainty,
                   requests, exports, agg_in, agg_out>>

\* the client asks for the run to be killed
model_kill ==
    /\ Truthy(greenlets, active_greenlets)
    /\ Becomes(on_model_kill(World))
    /\ UNCHANGED <<active_greenlets, is_async, has_weathering_uncertainty,
                   requests, exports, agg_in, agg_out>>

-----------------------------------------------------------------------------
(* get_rewind.  The handler does not switch to the hub, so it is one action; *)
(* each statement notes in w.rw what it did and the state it left.          *)

Note(w, op) ==
    [w EXCEPT !.rw = Append(@, [op |-> op,
                                locked |-> w.lock,
                                alive |-> Truthy(w.gl, active_greenlets),
                                num_sent |-> w.ss.num_sent,
                                current_time_step |-> w.m.current_time_step])]

\* Line 403
acquire_session_lock(w) == Note([w EXCEPT !.lock = TRUE], "acquire")

\* the throw pending for greenlet g is the one get_rewind asked for (or asked
\* for again): its callback keeps that as its reason
by_rewind(w, g) ==
    [w EXCEPT !.hub = [i \in 1..Len(w.hub) |->
                          IF w.hub[i].type = "kill" /\ w.hub[i].g = g
                          THEN Callback("kill", g, "rewind")
                          ELSE w.hub[i]]]

\* Line 412: ns.active_greenlets.get(sio).kill(block=False)
kill_active(w) ==
    Note(by_rewind(Kill(w, active_greenlets), active_greenlets), "kill")

\* Line 413: sock_session['num_sent'] = 0
reset_num_sent(w) == Note([w EXCEPT !.ss.num_sent = 0], "reset")

\* Line 414: active_model.rewind()
rewind_model(w) == Note([w EXCEPT !.m.current_time_step = -1], "rewind")

\* the same with the lock released at the end of the try block, not in finally
release_session_lock_in_try(w) ==
    IF \E i \in 1..Len(w.rw) : w.rw[i].op = "HTTPUnprocessableEntity"
    THEN w
    ELSE Note([w EXCEPT !.lock = FALSE], "release")

\* Line 419: session_lock.release()
release_session_lock(w) == Note([w EXCEPT !.lock = FALSE], "release")

\* the same with the model rewound first
try_rewind_model_first(w) ==
    IF Truthy(w.gl, active_greenlets)
    THEN reset_num_sent(kill_active(rewind_model(w)))
    ELSE rewind_model(w)

\* Lines 408-414
try_rewind(w) ==
    rewind_model(IF Truthy(w.gl, active_greenlets)
                 THEN reset_num_sent(kill_active(w))
                 ELSE w)

\* Lines 402-421, when neither the kill nor the model's rewind raises
get_rewind ==
    /\ ~session_lock
    /\ Becomes(release_session_lock(try_rewind(acquire_session_lock(World))))
    /\ UNCHANGED <<active_greenlets, is_async, has_weathering_uncertainty,
                   requests, exports, agg_in, agg_out>>

\* Lines 415-417: raise cors_exception(request, HTTPUnprocessableEntity, ...)
unprocessable(w) == Note(w, "HTTPUnprocessableEntity")

\* what can raise inside the try block: nothing, the kill, the model's rewind
Raises == {"nothing", "kill", "rewind"}

\* Lines 407-417: the try block with its except clause.  A statement that
\* raises has no effect, and the statements after it are not executed.
try_rewind_except(w, raises) ==
    IF raises = "nothing" THEN try_rewind(w)
    ELSE IF ~Truthy(w.gl, active_greenlets) THEN unprocessable(w)
    ELSE IF raises = "kill" THEN unprocessable(w)
    ELSE unprocessable(reset_num_sent(kill_active(w)))

\* Lines 402-421, with the failures of the collaborators
get_rewind_raising ==
    /\ ~session_lock
    /\ \E raises \in Raises :
         Becomes(release_session_lock(
                     try_rewind_except(acquire_session_lock(World), raises)))
    /\ UNCHANGED <<active_greenlets, is_async, has_weathering_uncertainty,
                   requests, exports, agg_in, agg_out>>

-----------------------------------------------------------------------------
(* The hub *)

\* the hub takes the first callback off its queue
Pop(w) ==
    [w EXCEPT !.hub = Tail(@),
              !.gl = [g \in 1..Len(w.gl) |->
                        [w.gl[g] EXCEPT !.behind = IF @ > 0 THEN @ - 1 ELSE 0]]]

\* The wait or the sleep of a suspended greenlet runs out: the timer's
\* watcher switches to the greenlet at once.  A wake-up already scheduled by
\* Event.set comes first.
\* Inputs: what step() and the workers may do when the greenlet goes on
timer(Inputs) ==
    /\ \E g \in 1..Len(greenlets) :
         /\ Wakeable(g)
         /\ greenlets[g].behind = 0
         /\ \E inp \in Inputs :
              Becomes(Resume(World, g,
                             IF greenlets[g].pc = "sleep" THEN "timer"
                             ELSE "timeout", inp))
    /\ UNCHANGED <<active_greenlets, is_async, has_weathering_uncertainty,
                   requests, exports, agg_in, agg_out>>

timer_fires == timer(StepInputs)

\* the greenlet starts running execute_async_model
start(Inputs) ==
    /\ hub # << >>
    /\ Head(hub).type = "start"
    /\ \E inp \in Inputs : Becomes(Start(Pop(World), Head(hub).g, inp))
    /\ UNCHANGED <<active_greenlets, is_async, has_weathering_uncertainty,
                   requests, exports, agg_in, agg_out>>

hub_start == start(StepInputs)

\* a suspended greenlet is switched to; a wake-up for a dead greenlet is void
wake(Inputs) ==
    /\ hub # << >>
    /\ Head(hub).type = "wake"
    /\ LET g == Head(hub).g
       IN  IF greenlets[g].st = "suspended"
           THEN \E inp \in Inputs :
                    Becomes(Resume(Pop(World), g, Head(hub).why, inp))
           ELSE Becomes(Pop(World))
    /\ UNCHANGED <<active_greenlets, is_async, has_weathering_uncertainty,
                   requests, exports, agg_in, agg_out>>

hub_wake == wake(StepInputs)

\* GreenletExit is thrown into the greenlet where it is suspended; inside a
\* 'with session' block the session is saved on the way out
Throw(w, g) ==
    IF w.gl[g].st # "suspended" THEN w
    ELSE IF w.gl[g].pc \in {"start_wait", "next_wait"}
    THEN Killed(ExitSession(w, g), g)
    ELSE Killed(w, g)

hub_kill ==
    /\ hub # << >>
    /\ Head(hub).type = "kill"
    /\ Becomes(Throw(Pop(World), Head(hub).g))
    /\ UNCHANGED <<active_greenlets, is_async, has_weathering_uncertainty,
                   requests, exports, agg_in, agg_out>>

\* the callbacks linked to a dead greenlet are called
notify_links(w, g) == cleanup(w, g)

hub_links ==
    /\ hub # << >>
    /\ Head(hub).type = "links"
    /\ \E written \in Written(Head(hub).g) :
         Becomes(notify_links([Pop(World) EXCEPT !.gl[Head(hub).g].written = written,
                                                 !.gl[Head(hub).g].scratch = written],
                              Head(hub).g))
    /\ UNCHANGED <<active_greenlets, is_async, has_weathering_uncertainty,
                   requests, exports, agg_in, agg_out>>

-----------------------------------------------------------------------------
Next ==
    \/ run_model
    \/ run_export_model
    \/ gate_set
    \/ gate_clear
    \/ model_kill
    \/ get_rewind
    \/ timer_fires
    \/ hub_start
    \/ hub_wake
    \/ hub_kill
    \/ hub_links

Spec == Init /\ [][Next]_vars

-----------------------------------------------------------------------------
(* The aggregation of lines 266-310 on its own, over more worker results *)

\* number of uncertainty workers
MaxWorkers == 3

AggResults == { Fragment([a |-> 1]), Fragment([a |-> 2]), Fragment([a |-> 3]),
                Fragment([a |-> 2, b |-> 1]), Failure("worker") }

AggInputs ==
    [output : { OutEmpty, OutPlain(0), OutWeathering(0) },
     steps : UNION { [1..n -> AggResults] : n \in 0..MaxWorkers }]

AggInit ==
    /\ EngineInit
    /\ agg_in \in AggInputs
    /\ agg_out = NoResult

do_aggregate ==
    /\ ~agg_out.done
    /\ agg_out' = [done |-> TRUE] @@ aggregate_steps(agg_in.output, agg_in.steps)
    /\ UNCHANGED <<engine_vars, agg_in>>

AggNext == do_aggregate

AggSpec == AggInit /\ [][AggNext]_vars

-----------------------------------------------------------------------------
(* One plain run and rewind requests whose collaborators may raise *)

first_run_model == requests = 0 /\ run_model

RewindNext ==
    \/ first_run_model
    \/ gate_set
    \/ gate_clear
    \/ model_kill
    \/ get_rewind_raising
    \/ timer_fires
    \/ hub_start
    \/ hub_wake
    \/ hub_kill

RewindSpec == Init /\ [][RewindNext]_vars

-----------------------------------------------------------------------------
(* Plain runs in free-run mode that nothing disturbs: no kill and no rewind *)
(* is asked for, the client does not clear the Gate, step() and the workers *)
(* do not fail.  The hub goes on running its callbacks, and timers run out. *)

Undisturbed ==
    { inp \in StepInputs :
        ~inp.raises /\ \A i \in 1..Len(inp.steps) : ~is_failure(inp.steps[i]) }

timer_fires_undisturbed == timer(Undisturbed)
hub_start_undisturbed == start(Undisturbed)
hub_wake_undisturbed == wake(Undisturbed)

hub_runs ==
    \/ hub_start_undisturbed
    \/ hub_wake_undisturbed
    \/ hub_kill

LiveInit == Init /\ is_async

LiveNext ==
    \/ run_model
    \/ gate_set
    \/ timer_fires_undisturbed
    \/ hub_runs

LiveSpec ==
    /\ LiveInit
    /\ [][LiveNext]_vars
    /\ WF_vars(hub_runs)
    /\ WF_vars(timer_fires_undisturbed)

-----------------------------------------------------------------------------
(* Properties *)

Runs == 1..Len(greenlets)

EventsOf(g, name) == SelectSeq(events, LAMBDA e : e.g = g /\ e.name = name)

Alive == { g \in Runs : greenlets[g].st # "dead" }

\* C1: at any time at most one greenlet of the session is alive (scheduled
\* or suspended), whatever requests have arrived; the registry names it.
AtMostOneStepTask ==
    /\ Cardinality(Alive) <= 1
    /\ \A g \in Alive : active_greenlets = g

\* a second run request has arrived while the first greenlet was alive
SecondRequestWhileActive ==
    /\ requests = 2
    /\ Len(greenlets) = 1
    /\ greenlets[1].st = "suspended"
    /\ greenlets[1].calls > 0

\* C2: the cleanup linked to an export run has run exactly once when the
\* run's greenlet is dead and the hub has called its links, and not at all
\* before; the call is queued exactly when the greenlet dies, however it dies.
CleanupExactlyOnce ==
    \A g \in Runs :
        greenlets[g].linked =>
            /\ greenlets[g].cleanups =
                   (IF Over(World, g) THEN 1 ELSE 0)
            /\ Queued(hub, "links", g) => greenlets[g].st = "dead"
            /\ Cardinality({ i \in 1..Len(hub) :
                                hub[i].type = "links" /\ hub[i].g = g }) <= 1

\* an export run was killed before its first instruction and is cleaned up
CleanedUpKilledBeforeStart ==
    \E g \in Runs :
        /\ greenlets[g].linked
        /\ greenlets[g].value = "GreenletExit"
        /\ EventsOf(g, "prepared") = << >>
        /\ greenlets[g].cleanups = 1

\* C3: for an export run that was killed no 'export_finished' is emitted,
\* and its cleanup emits one 'export_failed', whatever files were written.
KilledExportFails ==
    \A g \in Runs :
        greenlets[g].linked /\ greenlets[g].value = "GreenletExit" =>
            /\ EventsOf(g, "export_finished") = << >>
            /\ Len(EventsOf(g, "export_failed")) = greenlets[g].cleanups
            /\ greenlets[g].placed = << >>

\* an export run was killed after its writers had written their files
KilledExportWithFiles ==
    \E g \in Runs :
        /\ greenlets[g].linked
        /\ greenlets[g].value = "GreenletExit"
        /\ greenlets[g].calls > 0
        /\ greenlets[g].written # {}
        /\ greenlets[g].cleanups = 1
        /\ Len(EventsOf(g, "export_failed")) = 1

\* C4: the k-th 'step' event of a run carries the count k, the count of the
\* run is the number of its 'step' events, and as long as the run has not
\* failed there is one 'step' event for each call of step() that returned.
StepEventsInOrder ==
    \A g \in Runs :
        LET sent == EventsOf(g, "step")
        IN  /\ \A k \in 1..Len(sent) : sent[k].num = k
            /\ greenlets[g].copy = Len(sent)
            /\ greenlets[g].value # "exception" => greenlets[g].calls = Len(sent)

\* a run has emitted two steps and completed
TwoStepsSent ==
    \E g \in Runs :
        /\ greenlets[g].value = "None"
        /\ Len(EventsOf(g, "step")) = 2
        /\ greenlets[g].calls = 2

\* C5: a run whose start wait timed out emits exactly one 'timeout' event
\* and no 'step' event, and step() is never called in it.
StartTimeoutStopsRun ==
    \A g \in Runs :
        EventsOf(g, "timeout") # << >> =>
            /\ Len(EventsOf(g, "timeout")) = 1
            /\ EventsOf(g, "step") = << >>
            /\ greenlets[g].calls = 0

\* C6: get_rewind takes the session lock, and with an active greenlet it
\* asks for its kill, sets num_sent to 0 and only then rewinds the model,
\* all before it releases the lock; the kill is not waited for: a greenlet
\* that had started is still alive, with the throw queued on the hub.
RewindOrder ==
    rewind # << >> =>
        LET ops == [i \in 1..Len(rewind) |-> rewind[i].op]
        IN  /\ ops \in { <<"acquire", "kill", "reset", "rewind", "release">>,
                          <<"acquire", "rewind", "release">> }
            /\ \A i \in 1..(Len(rewind) - 1) : rewind[i].locked
            /\ ~rewind[Len(rewind)].locked
            /\ rewind[1].alive <=> Len(rewind) = 5
            /\ Len(rewind) = 5 =>
                  /\ rewind[2].current_time_step = rewind[1].current_time_step
                  /\ rewind[3].num_sent = 0
                  /\ rewind[3].current_time_step = rewind[1].current_time_step
                  /\ rewind[4].num_sent = 0
                  /\ rewind[4].current_time_step = -1
                  /\ rewind[2].alive =>
                        /\ greenlets[active_greenlets].st = "suspended"
                        /\ Queued(hub, "kill", active_greenlets)
            /\ sock_session.num_sent = 0 \/ Len(rewind) = 3
            /\ model.current_time_step = -1

\* a model that has stepped was rewound while its greenlet was suspended
RewoundWhileRunning ==
    /\ Len(rewind) = 5
    /\ rewind[1].current_time_step >= 0
    /\ rewind[2].alive
    /\ greenlets[active_greenlets].calls > 0

\* C7: a step for which a worker's result encodes a failure fails the run:
\* 'runtimeError' reports the worker's failure, the run ends with the
\* exception, and the step is not emitted, whatever the nominal record is.
WorkerFailureFailsStep ==
    \A g \in Runs :
        greenlets[g].failures > 0 =>
            /\ greenlets[g].value = "exception"
            /\ \E i \in 1..Len(events) :
                  /\ events[i].g = g
                  /\ events[i].name = "runtimeError"
                  /\ events[i].msg = "worker"
            /\ Len(EventsOf(g, "step")) = greenlets[g].calls - 1

\* the blocks of the worker results aggregated
AggBlocks == [i \in 1..Len(agg_in.steps) |-> agg_in.steps[i].WeatheringOutput]

AggKeys == UNION { DOMAIN AggBlocks[i] : i \in 1..Len(agg_in.steps) }

AggValid ==
    /\ agg_out.done
    /\ agg_in.steps # << >>
    /\ \A i \in 1..Len(agg_in.steps) : ~is_failure(agg_in.steps[i])
    /\ "WeatheringOutput" \in DOMAIN agg_in.output

\* C8: from valid worker results and a nominal record with WeatheringOutput
\* the aggregated block has, for every field of the workers' blocks, the
\* least value as low and the greatest as high, the nominal block as
\* nominal with its time stamp, and worker i's block as entry i.
AggregatedRange ==
    AggValid =>
        LET full == agg_out.output.WeatheringOutput
            having(k) == { i \in 1..Len(agg_in.steps) : k \in DOMAIN AggBlocks[i] }
        IN  /\ ~agg_out.raised
            /\ DOMAIN full.low = AggKeys
            /\ DOMAIN full.high = AggKeys
            /\ \A k \in AggKeys :
                  /\ \E i \in having(k) : full.low[k] = AggBlocks[i][k]
                  /\ \A i \in having(k) : full.low[k] <= AggBlocks[i][k]
                  /\ \E i \in having(k) : full.high[k] = AggBlocks[i][k]
                  /\ \A i \in having(k) : full.high[k] >= AggBlocks[i][k]
            /\ full.nominal = agg_in.output.WeatheringOutput
            /\ full.time_stamp = agg_in.output.WeatheringOutput.time_stamp
            /\ DOMAIN full.idx = 0..(Len(agg_in.steps) - 1)
            /\ \A i \in 1..Len(agg_in.steps) : full.idx[i - 1] = AggBlocks[i]

\* the fragments [{a:1},{a:3},{a:2}] were aggregated: low.a = 1, high.a = 3
AggregatedOneThreeTwo ==
    /\ AggValid
    /\ agg_in.steps = <<Fragment([a |-> 1]), Fragment([a |-> 3]), Fragment([a |-> 2])>>
    /\ agg_out.output.WeatheringOutput.low = [a |-> 1]
    /\ agg_out.output.WeatheringOutput.high = [a |-> 3]

\* an export run with outputters outs ended normally, was cleaned up, and
\* its cleanup found a file of each outputter
Exported(g, n) ==
    /\ greenlets[g].linked
    /\ greenlets[g].value = "None"
    /\ greenlets[g].cleanups = 1
    /\ Len(greenlets[g].temporary_outputters) = n
    /\ \A i \in 1..n :
          \/ greenlets[g].temporary_outputters[i].filename \in greenlets[g].written
          \/ add_zip(greenlets[g].temporary_outputters[i].filename)
                 \in greenlets[g].written

\* the file of outputter o the cleanup takes, and its last path component
TakenFile(g, o) ==
    IF o.filename \in greenlets[g].written THEN o.filename
    ELSE [o.filename EXCEPT ![Len(o.filename)] = @ \o ".zip"]

TakenName(g, o) == TakenFile(g, o)[Len(TakenFile(g, o))]

\* C9: after a successful export run with more than one outputter the
\* session directory holds one zip archive, named after the model, with one
\* entry per outputter in order: the outputter's file (the '.zip' one only
\* when the plain one is absent) under its base name; 'export_finished'
\* names the archive.
ZipOfAllWriters ==
    \A g \in Runs : \A n \in 2..Len(greenlets[g].temporary_outputters) :
        Exported(g, n) =>
            LET outs == greenlets[g].temporary_outputters
                name == ModelName \o "_output.zip"
            IN  /\ DOMAIN greenlets[g].placed = {name}
                /\ greenlets[g].placed[name].zip
                /\ Len(greenlets[g].placed[name].entries) = n
                /\ \A i \in 1..n :
                      /\ greenlets[g].placed[name].entries[i].data = TakenFile(g, outs[i])
                      /\ greenlets[g].placed[name].entries[i].arcname = TakenName(g, outs[i])
                /\ Len(EventsOf(g, "export_finished")) = 1
                /\ EventsOf(g, "export_finished")[1].msg = name

\* two outputters, one of which left only its '.zip' file, were zipped
ZippedTwoWithFallback ==
    \E g \in Runs :
        /\ Exported(g, 2)
        /\ \E i \in 1..2 :
              greenlets[g].temporary_outputters[i].filename \notin greenlets[g].written
        /\ EventsOf(g, "export_finished") # << >>

\* C10: after a successful export run with one outputter the outputter's
\* file (the '.zip' one only when the plain one is absent) is in the session
\* directory under its base name, as it was written and no longer in the
\* scratch directory; no archive is made; 'export_finished' names the file.
SingleFileMoved ==
    \A g \in Runs :
        Exported(g, 1) =>
            LET o == greenlets[g].temporary_outputters[1]
            IN  /\ DOMAIN greenlets[g].placed = {TakenName(g, o)}
                /\ ~greenlets[g].placed[TakenName(g, o)].zip
                /\ greenlets[g].placed[TakenName(g, o)].data = TakenFile(g, o)
                /\ greenlets[g].scratch = greenlets[g].written \ {TakenFile(g, o)}
                /\ Len(EventsOf(g, "export_finished")) = 1
                /\ EventsOf(g, "export_finished")[1].msg = TakenName(g, o)

\* one outputter left its plain file and a '.zip' file: the plain one moved
MovedPlainFile ==
    \E g \in Runs :
        /\ Exported(g, 1)
        /\ Cardinality(greenlets[g].written) = 2
        /\ Cardinality(greenlets[g].scratch) = 1
        /\ EventsOf(g, "export_finished") # << >>

\* C11: a run request, plain or export, that arrives while the registered
\* greenlet is alive changes nothing: the model (its outputters included),
\* the socket session (num_sent and the Gate), the registry, the greenlets
\* with their linked callbacks, and the hub's queue stay as they are.
DuplicateRequestIsNoOp ==
    [][(requests' = requests + 1 /\ Truthy(greenlets, active_greenlets)) =>
          /\ model' = model
          /\ sock_session' = sock_session
          /\ active_greenlets' = active_greenlets
          /\ greenlets' = greenlets
          /\ hub' = hub]_vars

\* the greenlet g leaves its wait on the Gate after a step and goes on
LeavesNextWait(g) ==
    /\ greenlets[g].st = "suspended"
    /\ greenlets[g].pc = "next_wait"
    /\ greenlets'[g].pc = "sleep"

\* C12: when the wait on the Gate after a step runs out (the greenlet goes
\* on without a wake-up by a Gate set), the run emits 'timeout' and asks for
\* its own kill.
IdleTimeoutCancels ==
    [][\A g \in Runs :
          LeavesNextWait(g) /\ ~Queued(hub, "wake", g) =>
              /\ EventsOf(g, "timeout")' # << >>
              /\ Queued(hub', "kill", g)]_vars

\* C13: when the session is not in free-run mode, a step that is emitted
\* leaves the Gate cleared and the greenlet waiting on it, and the greenlet
\* leaves that wait, to sleep and step again, only by the wake-up of a Gate set.
GateSetPermitsStep ==
    [][~is_async =>
          \A g \in Runs :
              /\ greenlets'[g].steps = greenlets[g].steps + 1 =>
                    /\ ~sock_session'.lock
                    /\ greenlets'[g].st = "suspended"
                    /\ greenlets'[g].pc = "next_wait"
              /\ LeavesNextWait(g) =>
                    /\ hub # << >>
                    /\ Head(hub) = Callback("wake", g, "set")]_vars

\* the ids of the temporary outputters of the export run g
TemporaryIds(g) ==
    { greenlets[g].temporary_outputters[i].id :
        i \in 1..Len(greenlets[g].temporary_outputters) }

\* C14: the cleanup of an export run, however the run ended, takes exactly
\* the run's temporary outputters, which were attached, off the model and
\* leaves every other outputter attached, and it rewinds the model.
CleanupDetaches ==
    [][\A g \in Runs :
          greenlets[g].cleanups = 0 /\ greenlets'[g].cleanups = 1 =>
              /\ TemporaryIds(g) \subseteq model.outputters
              /\ model'.outputters = model.outputters \ TemporaryIds(g)
              /\ OwnOutputter \in model'.outputters
              /\ model'.current_time_step = -1]_vars

\* an export run with two outputters failed after a step and is cleaned up
FailedExportCleanedUp ==
    \E g \in Runs :
        /\ greenlets[g].linked
        /\ greenlets[g].value = "exception"
        /\ greenlets[g].calls > 0
        /\ greenlets[g].cleanups = 1
        /\ Len(greenlets[g].temporary_outputters) = 2
        /\ model.outputters = {OwnOutputter}
        /\ model.current_time_step = -1

\* the statements of the rewind request just handled, by name
RewindOps == [i \in 1..Len(rewind) |-> rewind[i].op]

\* C15: the session lock is free whenever get_rewind is not running: every
\* request that acquired it ends by releasing it, after the model's rewind or,
\* when the kill or the rewind raised, after the unprocessable-request error.
RewindReleasesLock ==
    /\ ~session_lock
    /\ rewind # << >> =>
          /\ RewindOps[1] = "acquire"
          /\ RewindOps[Len(rewind)] = "release"
          /\ RewindOps[Len(rewind) - 1] \in {"rewind", "HTTPUnprocessableEntity"}
          /\ \A i \in 1..(Len(rewind) - 1) : rewind[i].locked
          /\ \A i \in 1..(Len(rewind) - 2) :
                RewindOps[i] \notin {"rewind", "HTTPUnprocessableEntity", "release"}

\* the model's rewind raised after the active greenlet's kill was asked for
RewindRaisedAfterKill ==
    /\ RewindOps = <<"acquire", "kill", "reset", "HTTPUnprocessableEntity", "release">>
    /\ ~session_lock
    /\ model.current_time_step >= 0

\* the number of events of this name the run g emitted
Count(g, name) == Len(EventsOf(g, name))

\* the run's kill was asked for: it ended by GreenletExit, or it emitted
\* 'timeout' and asked for its own kill
Cancelled(g) ==
    greenlets[g].value = "GreenletExit" \/ EventsOf(g, "timeout") # << >>

\* C16: a run that began executing and has ended emitted exactly one of
\* 'complete', 'killed' and 'runtimeError': 'complete' exactly when the model
\* was exhausted, 'killed' exactly when the run was cancelled (by a kill, a
\* rewind or its own timeout), 'runtimeError' exactly when an exception other
\* than the cancellation was raised.
OneTerminalEvent ==
    \A g \in Runs :
        greenlets[g].st = "dead" /\ EventsOf(g, "prepared") # << >> =>
            /\ Count(g, "complete") + Count(g, "killed")
                  + Count(g, "runtimeError") = 1
            /\ Count(g, "complete") = 1 <=> greenlets[g].value = "None"
            /\ Count(g, "killed") = 1 <=> Cancelled(g)
            /\ Count(g, "runtimeError") = 1 <=> greenlets[g].value = "exception"

\* C17: when a run has emitted 'complete', the copy of the session has been
\* saved and, for an export run, the linked cleanup has run: its events, if
\* any, come before 'complete'.
CompleteAfterCleanup ==
    \A g \in Runs :
        Count(g, "complete") > 0 =>
            /\ greenlets[g].st = "dead"
            /\ greenlets[g].linked => greenlets[g].cleanups = 1
            /\ \A i, j \in 1..Len(events) :
                  /\ events[i].g = g
                  /\ events[i].name \in {"export_finished", "export_failed"}
                  /\ events[j].g = g
                  /\ events[j].name = "complete"
                  => i < j

\* C18: in the step in which a greenlet that began executing ends, however
\* it ends, the session is saved, and the num_sent saved is the number of
\* 'step' events the run emitted.
PersistsOnExit ==
    [][\A g \in Runs :
          /\ greenlets[g].st # "dead"
          /\ greenlets'[g].st = "dead"
          /\ EventsOf(g, "prepared")' # << >>
          => sock_session'.num_sent = Count(g, "step")']_vars

\* a run was killed after its first step, and the session counts one step
KilledAfterOneStep ==
    \E g \in Runs :
        /\ greenlets[g].value = "GreenletExit"
        /\ Count(g, "step") = 1
        /\ Count(g, "killed") = 1
        /\ sock_session.num_sent = 1

\* the step is a call of step() by the registered, living greenlet
StepByActiveTask ==
    \E g \in Runs :
        /\ active_greenlets = g
        /\ greenlets[g].st # "dead"
        /\ greenlets'[g].calls = greenlets[g].calls + 1
        /\ model'.outputters = model.outputters

\* the step is a rewind request that rewound the model holding the lock
RewindUnderLock ==
    /\ rewind' # << >>
    /\ \E i \in 1..Len(rewind') : rewind'[i].op = "rewind" /\ rewind'[i].locked
    /\ model'.outputters = model.outputters

\* C19: the model (its time step, its outputters) is changed only by the
\* session's active task stepping it or by code that holds the session lock;
\* attaching and detaching outputters and the cleanup's rewind included.
MutationsGuarded ==
    [][model' # model => StepByActiveTask \/ RewindUnderLock]_vars

\* the run g is in the loop, past the start wait, in free-run mode with the
\* Gate set, and neither timed out nor about to be killed
FreeRunning(g) ==
    /\ g \in Runs
    /\ is_async
    /\ sock_session.lock
    /\ greenlets[g].st = "suspended"
    /\ greenlets[g].pc = "sleep"
    /\ EventsOf(g, "timeout") = << >>
    /\ ~Queued(hub, "kill", g)

\* the run g has ended by the model's exhaustion: one 'step' for each call of
\* step(), all the model's time steps done, the workers dropped, 'complete'
RanToCompletion(g) ==
    /\ g \in Runs
    /\ greenlets[g].value = "None"
    /\ Count(g, "step") = greenlets[g].calls
    /\ model.current_time_step = NumTimeSteps - 1
    /\ ~uncertain_models
    /\ Count(g, "complete") = 1

\* C20: a run in free-run mode with the Gate left set, which nothing kills,
\* rewinds or fails, goes on to the end of the model's time steps: it emits a
\* 'step' for every step, drops the uncertainty workers and emits 'complete'.
EventuallyCompleted ==
    \A g \in 1..MaxRequests : FreeRunning(g) ~> RanToCompletion(g)

\* a free run has done all the model's time steps and completed
FreeRunCompleted ==
    \E g \in Runs :
        /\ RanToCompletion(g)
        /\ is_async
        /\ sock_session.lock
        /\ Count(g, "step") = NumTimeSteps

\* C21: every event of a run ('prepared', 'timeout', 'step', 'killed',
\* 'runtimeError', 'complete') is emitted to the room of the session that
\* owns the run, never to the other sessions of the namespace.
EventsToOwnRoom ==
    \A i \in 1..Len(events) :
        events[i].name \in {"prepared", "timeout", "step", "killed",
                            "runtimeError", "complete"}
            => events[i].room = Sid

\* C22: the cleanup of an export run, whatever the number of its outputters
\* (none included), emits exactly one outcome event: 'export_finished' when
\* the greenlet returned, 'export_failed' when it was killed or failed.
OneExportOutcome ==
    \A g \in Runs :
        greenlets[g].linked /\ greenlets[g].cleanups = 1 =>
            /\ Count(g, "export_finished") + Count(g, "export_failed") = 1
            /\ Count(g, "export_finished") = 1 <=> greenlets[g].value = "None"

\* the throw that ends greenlet g was asked for by get_rewind and is next on
\* the hub: the step that runs it, and ends g with GreenletExit, is the
\* unwinding of the cancelled task
RewindThrowNext(g) ==
    /\ hub # << >>
    /\ Head(hub) = Callback("kill", g, "rewind")
    /\ greenlets[g].st = "suspended"

\* C23: when the task that get_rewind cancelled has unwound, the session is
\* in its initial run state: num_sent is 0 and the model's current_time_step
\* is -1 (no step after the rewind, the reset counter not overwritten).
RewoundRunIsReset ==
    [][\A g \in Runs :
           RewindThrowNext(g) /\ greenlets'[g].value = "GreenletExit" =>
               /\ sock_session'.num_sent = 0
               /\ model'.current_time_step = -1]_vars

\* the registered greenlet is dead: the session's task is in a terminal state
Ended == active_greenlets # 0 /\ greenlets[active_greenlets].st = "dead"

\* C24: a run that has ended is never started again by the engine (a dead
\* greenlet stays dead, and a greenlet is spawned only in the step of a run
\* request), and a run request that finds the session's task ended spawns a
\* new greenlet and registers it: the ended task does not block the registry.
EndedRunFreesRegistry ==
    [][/\ \A g \in Runs : greenlets[g].st = "dead" =>
              /\ Len(greenlets') >= g
              /\ greenlets'[g].st = "dead"
       /\ Len(greenlets') # Len(greenlets) =>
              /\ requests' = requests + 1
              /\ Len(greenlets') = Len(greenlets) + 1
       /\ Ended /\ requests' = requests + 1 =>
              /\ Len(greenlets') = Len(greenlets) + 1
              /\ active_greenlets' = Len(greenlets')
              /\ greenlets'[active_greenlets'].st = "scheduled"
              /\ Queued(hub', "start", active_greenlets')]_vars

\* after a run that was killed or failed, or that completed and is not
\* cleaned up yet, a second request has started a new run, which has stepped
NewRunAfterEnded ==
    /\ Len(greenlets) = 2
    /\ greenlets[1].st = "dead"
    /\ active_greenlets = 2
    /\ greenlets[2].st = "suspended"
    /\ greenlets[2].calls > 0

=============================================================================
